---- MODULE Spec2Model ----
(***************************************************************************)
(* The F1 race winners API of src/main.py: a literal table of winners per  *)
(* year and three GET handlers that read it.  Strings that the handlers    *)
(* strip, lowercase or compare are sequences of one-character strings;     *)
(* winners' names and messages, which are only copied, are TLA+ strings.   *)
(***************************************************************************)
EXTENDS Integers, Sequences, FiniteSets

VARIABLES
    f1_race_winners,  \* the module-level table, year -> list of records
    response,         \* the last call served one at a time, with its result
    noted,            \* an earlier call and its result, kept for comparison
    req               \* the requests in flight, one per server thread

vars == <<f1_race_winners, response, noted, req>>

(***************************************************************************)
(* Characters: str.lower() and str.strip() over ASCII letters and the      *)
(* ASCII whitespace that a TLA+ string can hold; any other character is    *)
(* left as it is by both.                                                  *)
(***************************************************************************)
LowerCase == <<"a", "b", "c", "d", "e", "f", "g", "h", "i", "j", "k", "l", "m", "n", "o", "p", "q", "r", "s", "t", "u", "v", "w", "x", "y", "z">>
UpperCase == <<"A", "B", "C", "D", "E", "F", "G", "H", "I", "J", "K", "L", "M", "N", "O", "P", "Q", "R", "S", "T", "U", "V", "W", "X", "Y", "Z">>

Whitespace == {" ", "\t", "\n", "\r", "\f"}

ToLowerMap == [c \in {UpperCase[i] : i \in 1..Len(UpperCase)} |->
                  LowerCase[CHOOSE i \in 1..Len(UpperCase) : UpperCase[i] = c]]

ToUpperMap == [c \in {LowerCase[i] : i \in 1..Len(LowerCase)} |->
                  UpperCase[CHOOSE i \in 1..Len(LowerCase) : LowerCase[i] = c]]

ToLower(c) == IF c \in DOMAIN ToLowerMap THEN ToLowerMap[c] ELSE c

ToUpper(c) == IF c \in DOMAIN ToUpperMap THEN ToUpperMap[c] ELSE c

\* s.lower()
Lower(s) == [i \in 1..Len(s) |-> ToLower(s[i])]

RECURSIVE LStrip(_)
LStrip(s) ==
    IF s # <<>> /\ Head(s) \in Whitespace THEN LStrip(Tail(s)) ELSE s

RECURSIVE RStrip(_)
RStrip(s) ==
    IF s # <<>> /\ s[Len(s)] \in Whitespace
    THEN RStrip(SubSeq(s, 1, Len(s) - 1))
    ELSE s

\* s.strip()
Strip(s) == RStrip(LStrip(s))

(***************************************************************************)
(* The table of src/main.py, lines 27-50.                                  *)
(***************************************************************************)
bahrain == <<"b", "a", "h", "r", "a", "i", "n">>
emilia_romagna == <<"e", "m", "i", "l", "i", "a", "_", "r", "o", "m", "a", "g", "n", "a">>
portuguese == <<"p", "o", "r", "t", "u", "g", "u", "e", "s", "e">>
saudi_arabia == <<"s", "a", "u", "d", "i", "_", "a", "r", "a", "b", "i", "a">>
australian == <<"a", "u", "s", "t", "r", "a", "l", "i", "a", "n">>
monaco == <<"m", "o", "n", "a", "c", "o">>
cape_town == <<"c", "a", "p", "e", "_", "t", "o", "w", "n">>

Row(race, winner) == [race |-> race, winner |-> winner]

Table2021 ==
    << Row(bahrain, "Lewis Hamilton"),
       Row(emilia_romagna, "Max Verstappen"),
       Row(portuguese, "Lewis Hamilton") >>

Table2022 ==
    << Row(bahrain, "Charles Leclerc"),
       Row(saudi_arabia, "Max Verstappen"),
       Row(australian, "Charles Leclerc") >>

Table2023 ==
    << Row(bahrain, "Max Verstappen"),
       Row(saudi_arabia, "Max Verstappen"),
       Row(australian, "Max Verstappen") >>

\* Table2024 with the second race entered under the first one's name
Table2024Duplicated ==
    << Row(bahrain, "Max Verstappen"),
       Row(bahrain, "Carlos Sainz"),
       Row(saudi_arabia, "Max Verstappen"),
       Row(monaco, "Charles Leclerc"),
       Row(cape_town, "Abdul Davids") >>

Table2024 ==
    << Row(bahrain, "Max Verstappen"),
       Row(australian, "Carlos Sainz"),
       Row(saudi_arabia, "Max Verstappen"),
       Row(monaco, "Charles Leclerc"),
       Row(cape_town, "Abdul Davids") >>

F1RaceWinners ==
    [y \in 2021..2024 |->
        CASE y = 2021 -> Table2021
          [] y = 2022 -> Table2022
          [] y = 2023 -> Table2023
          [] y = 2024 -> Table2024]

(***************************************************************************)
(* Responses.  A handler's dict goes out with status 200 through the       *)
(* route's response_model; a JSONResponse goes out as it is.               *)
(***************************************************************************)
WelcomeMessage == "Welcome to the F1 Race Winners API! Docs at /docs."
YearNotAvailable == "Data not available for the requested year."
RaceNotAvailable == "Data not available for the requested race."

ResponseMessage(message) == [message |-> message]

JSONResponse(status_code, content) == [status |-> status_code, body |-> content]

Ok(content) == [status |-> 200, body |-> content]

RaceWinner(race_info) == [race |-> race_info.race, winner |-> race_info.winner]

Reverse(s) == [i \in 1..Len(s) |-> s[Len(s) + 1 - i]]

\* YearWinnersResponse listing the records last to first
YearWinnersResponseReversed(year, winners) ==
    [year |-> year,
     winners |-> [i \in 1..Len(winners) |-> RaceWinner(Reverse(winners)[i])]]

YearWinnersResponse(year, winners) ==
    [year |-> year,
     winners |-> [i \in 1..Len(winners) |-> RaceWinner(winners[i])]]

\* RaceWinnerResponse after race = race.strip().lower()
RaceWinnerResponseNormalized(year, race, winner) ==
    [year |-> year, race |-> Lower(Strip(race)), winner |-> winner]

RaceWinnerResponse(year, race, winner) ==
    [year |-> year, race |-> race, winner |-> winner]

(***************************************************************************)
(* The handlers, as functions of the table they read.                      *)
(***************************************************************************)
read_root == Ok(ResponseMessage(WelcomeMessage))

\* get_year_winners over f1_race_winners.get(year, [])
get_year_winners_default(table, year) ==
    Ok(YearWinnersResponse(year, IF year \in DOMAIN table THEN table[year] ELSE <<>>))

get_year_winners(table, year) ==
    IF year \in DOMAIN table
    THEN Ok(YearWinnersResponse(year, table[year]))
    ELSE JSONResponse(404, ResponseMessage(YearNotAvailable))

IsPrefix(p, s) == Len(p) <= Len(s) /\ SubSeq(s, 1, Len(p)) = p

\* SameRace with startswith in place of ==
SameRacePrefix(race_info, race) ==
    IsPrefix(Lower(Strip(race)), Lower(Strip(race_info.race)))

\* race_info["race"].strip().lower() == race.strip().lower()
SameRace(race_info, race) == Lower(Strip(race_info.race)) = Lower(Strip(race))

\* ScanFrom without the early return: the last matching record wins
RECURSIVE ScanLast(_, _, _, _)
ScanLast(rows, year, race, i) ==
    IF i > Len(rows)
    THEN [status |-> 404, body |-> [message |-> RaceNotAvailable]]
    ELSE LET rest == ScanLast(rows, year, race, i + 1)
         IN  IF rest.status = 200
             THEN rest
             ELSE IF Lower(Strip(rows[i].race)) = Lower(Strip(race))
                  THEN [status |-> 200,
                        body |-> [year |-> year, race |-> race,
                                  winner |-> rows[i].winner]]
                  ELSE rest

\* the for loop of get_race_winner, from the i-th record on
RECURSIVE ScanFrom(_, _, _, _)
ScanFrom(rows, year, race, i) ==
    IF i > Len(rows)
    THEN JSONResponse(404, ResponseMessage(RaceNotAvailable))
    ELSE IF SameRace(rows[i], race)
         THEN Ok(RaceWinnerResponse(year, race, rows[i].winner))
         ELSE ScanFrom(rows, year, race, i + 1)

\* get_race_winner over f1_race_winners.get(year, [])
get_race_winner_default(table, year, race) ==
    ScanFrom(IF year \in DOMAIN table THEN table[year] ELSE <<>>, year, race, 1)

get_race_winner(table, year, race) ==
    IF year \in DOMAIN table
    THEN ScanFrom(table[year], year, race, 1)
    ELSE JSONResponse(404, ResponseMessage(YearNotAvailable))

(***************************************************************************)
(* Calls and their arguments.                                              *)
(***************************************************************************)
MaxPad == 1

monza == <<"m", "o", "n", "z", "a">>
cape_space_town == <<"c", "a", "p", "e", " ", "t", "o", "w", "n">>

Words ==
    {bahrain, emilia_romagna, portuguese, saudi_arabia, australian, monaco,
     cape_town, monza, cape_space_town, <<>>}

Upper(s) == [i \in 1..Len(s) |-> ToUpper(s[i])]

Capitalize(s) == [i \in 1..Len(s) |-> IF i = 1 THEN ToUpper(s[i]) ELSE s[i]]

Cased == UNION {{w, Upper(w), Capitalize(w)} : w \in Words}

LeftRun == <<" ", "\t", "\n", "\r", "\f">>
RightRun == <<"\n", " ", "\r", "\t", "\f">>

Padded(s, l, r) == SubSeq(LeftRun, 1, l) \o s \o SubSeq(RightRun, 1, r)

Races == {Padded(s, l, r) : s \in Cased, l \in 0..MaxPad, r \in 0..MaxPad}

Years == {1999} \cup (2021..2025)

NoRace == <<>>

Call(op, year, race, result) ==
    [op |-> op, year |-> year, race |-> race,
     status |-> result.status, body |-> result.body]

NoCall == Call("none", 0, NoRace, JSONResponse(0, ResponseMessage("")))

Idle == [pc |-> "idle", op |-> "none", year |-> 0, race |-> NoRace, i |-> 0,
         status |-> 0, body |-> ResponseMessage("")]

NumWorkers == 2

Workers == 1..NumWorkers

(***************************************************************************)
(* One call at a time: each handler runs from its first line to its return.*)
(***************************************************************************)
GetWelcome ==
    /\ response' = Call("root", 0, NoRace, read_root)
    /\ UNCHANGED f1_race_winners

\* GetYearWinners after f1_race_winners[year].reverse()
GetYearWinnersReversing(year) ==
    LET table == IF year \in DOMAIN f1_race_winners
                 THEN [f1_race_winners EXCEPT ![year] = Reverse(@)]
                 ELSE f1_race_winners
    IN  /\ response' = Call("getYearWinners", year, NoRace,
                            get_year_winners(table, year))
        /\ f1_race_winners' = table

GetYearWinners(year) ==
    /\ response' = Call("getYearWinners", year, NoRace,
                        get_year_winners(f1_race_winners, year))
    /\ UNCHANGED f1_race_winners

Without(rows, race) == SelectSeq(rows, LAMBDA race_info : ~SameRace(race_info, race))

\* GetRaceWinner taking the record it serves out of the list
GetRaceWinnerRemoving(year, race) ==
    /\ response' = Call("getRaceWinner", year, race,
                        get_race_winner(f1_race_winners, year, race))
    /\ f1_race_winners' =
           IF year \in DOMAIN f1_race_winners
           THEN [f1_race_winners EXCEPT ![year] = Without(@, race)]
           ELSE f1_race_winners

GetRaceWinner(year, race) ==
    /\ response' = Call("getRaceWinner", year, race,
                        get_race_winner(f1_race_winners, year, race))
    /\ UNCHANGED f1_race_winners

Init ==
    /\ f1_race_winners = F1RaceWinners
    /\ response = NoCall
    /\ noted = NoCall
    /\ req = [w \in Workers |-> Idle]

Next ==
    \/ GetWelcome /\ UNCHANGED <<noted, req>>
    \/ \E year \in Years : GetYearWinners(year) /\ UNCHANGED <<noted, req>>
    \/ \E year \in Years, race \in Races :
           GetRaceWinner(year, race) /\ UNCHANGED <<noted, req>>

Spec == Init /\ [][Next]_vars

(***************************************************************************)
(* Repeated calls: an earlier call and its result are kept beside the last *)
(* one, whatever was called in between.                                    *)
(***************************************************************************)
Note == noted' \in {noted, response} /\ UNCHANGED req

RepeatRaces ==
    {bahrain, emilia_romagna, portuguese, saudi_arabia, australian, monaco,
     cape_town, monza, Padded(Capitalize(bahrain), 1, 1), Upper(monaco)}

RepeatNext ==
    \/ GetWelcome /\ Note
    \/ \E year \in Years : GetYearWinners(year) /\ Note
    \/ \E year \in Years, race \in RepeatRaces : GetRaceWinner(year, race) /\ Note

RepeatSpec == Init /\ [][RepeatNext]_vars

(***************************************************************************)
(* Requests in flight together.  A server thread runs one handler a line   *)
(* at a time: the membership test, each turn of the loop and the return    *)
(* are separate steps, and the threads' steps interleave freely.           *)
(***************************************************************************)
ConcYears == {1999, 2021, 2024}

ConcRaces == {bahrain, Padded(Upper(monaco), 1, 0), monza}

Entry(op) ==
    CASE op = "root" -> "return_welcome"
      [] op = "getYearWinners" -> "year_listed"
      [] op = "getRaceWinner" -> "year_known"

Done(r, result) ==
    [r EXCEPT !.pc = "done", !.status = result.status, !.body = result.body]

Receive(w, op, year, race) ==
    /\ req[w].pc = "idle"
    /\ req' = [req EXCEPT ![w] = [Idle EXCEPT !.pc = Entry(op), !.op = op,
                                              !.year = year, !.race = race]]
    /\ UNCHANGED <<f1_race_winners, response, noted>>

\* read_root, line 158
ReturnWelcome(w) ==
    /\ req[w].pc = "return_welcome"
    /\ req' = [req EXCEPT ![w] = Done(@, read_root)]
    /\ UNCHANGED <<f1_race_winners, response, noted>>

\* get_year_winners, line 175
YearListed(w) ==
    /\ req[w].pc = "year_listed"
    /\ req' = [req EXCEPT ![w] =
                  IF @.year \in DOMAIN f1_race_winners
                  THEN [@ EXCEPT !.pc = "return_winners"]
                  ELSE Done(@, JSONResponse(404, ResponseMessage(YearNotAvailable)))]
    /\ UNCHANGED <<f1_race_winners, response, noted>>

\* get_year_winners, line 176
ReturnWinners(w) ==
    /\ req[w].pc = "return_winners"
    /\ req' = [req EXCEPT ![w] =
                  Done(@, Ok(YearWinnersResponse(@.year, f1_race_winners[@.year])))]
    /\ UNCHANGED <<f1_race_winners, response, noted>>

\* get_race_winner, line 199
YearKnown(w) ==
    /\ req[w].pc = "year_known"
    /\ req' = [req EXCEPT ![w] =
                  IF @.year \in DOMAIN f1_race_winners
                  THEN [@ EXCEPT !.pc = "scan", !.i = 1]
                  ELSE Done(@, JSONResponse(404, ResponseMessage(YearNotAvailable)))]
    /\ UNCHANGED <<f1_race_winners, response, noted>>

\* Scan reading the list as a queue: a record that does not match is popped
ScanPopping(w) ==
    LET r == req[w]
        rows == f1_race_winners[r.year]
    IN  /\ r.pc = "scan"
        /\ IF rows = <<>>
           THEN /\ req' = [req EXCEPT ![w] =
                              Done(@, JSONResponse(404, ResponseMessage(RaceNotAvailable)))]
                /\ UNCHANGED f1_race_winners
           ELSE IF SameRace(Head(rows), r.race)
                THEN /\ req' = [req EXCEPT ![w] =
                                   Done(@, Ok(RaceWinnerResponse(r.year, r.race,
                                                                 Head(rows).winner)))]
                     /\ UNCHANGED f1_race_winners
                ELSE /\ f1_race_winners' =
                            [f1_race_winners EXCEPT ![r.year] = Tail(rows)]
                     /\ UNCHANGED req
        /\ UNCHANGED <<response, noted>>

\* get_race_winner, lines 200-212: one turn of the loop, or its end
Scan(w) ==
    LET r == req[w]
        rows == f1_race_winners[r.year]
    IN  /\ r.pc = "scan"
        /\ req' = [req EXCEPT ![w] =
                      IF r.i > Len(rows)
                      THEN Done(@, JSONResponse(404, ResponseMessage(RaceNotAvailable)))
                      ELSE IF SameRace(rows[r.i], r.race)
                           THEN Done(@, Ok(RaceWinnerResponse(r.year, r.race,
                                                              rows[r.i].winner)))
                           ELSE [@ EXCEPT !.i = r.i + 1]]
        /\ UNCHANGED <<f1_race_winners, response, noted>>

\* the response leaves the server and the thread takes the next request
Deliver(w) ==
    /\ req[w].pc = "done"
    /\ req' = [req EXCEPT ![w] = Idle]
    /\ UNCHANGED <<f1_race_winners, response, noted>>

ConcNext ==
    \/ \E w \in Workers : Receive(w, "root", 0, NoRace)
    \/ \E w \in Workers, year \in ConcYears : Receive(w, "getYearWinners", year, NoRace)
    \/ \E w \in Workers, year \in ConcYears, race \in ConcRaces :
           Receive(w, "getRaceWinner", year, race)
    \/ \E w \in Workers : ReturnWelcome(w)
    \/ \E w \in Workers : YearListed(w)
    \/ \E w \in Workers : ReturnWinners(w)
    \/ \E w \in Workers : YearKnown(w)
    \/ \E w \in Workers : Scan(w)
    \/ \E w \in Workers : Deliver(w)

ConcSpec == Init /\ [][ConcNext]_vars

(***************************************************************************)
(* The handlers over other tables than the shipped one: every list of at   *)
(* most MaxRows records, names repeated or not, under one year.            *)
(***************************************************************************)
MaxRows == 3

FixtureYear == 2024

FixtureRows ==
    {Row(race, winner) :
        race \in {monaco, Padded(Capitalize(monaco), 0, 1), monza},
        winner \in {"Charles Leclerc", "Max Verstappen"}}

FixtureTables ==
    UNION {[1..n -> FixtureRows] : n \in 0..MaxRows}

FixtureRaces == {monaco, Upper(monza), bahrain}

FixtureInit ==
    /\ f1_race_winners \in [{FixtureYear} -> FixtureTables]
    /\ response = NoCall
    /\ noted = NoCall
    /\ req = [w \in Workers |-> Idle]

FixtureNext ==
    \/ GetWelcome /\ UNCHANGED <<noted, req>>
    \/ \E year \in {1999, FixtureYear} :
           GetYearWinners(year) /\ UNCHANGED <<noted, req>>
    \/ \E year \in {1999, FixtureYear}, race \in FixtureRaces :
           GetRaceWinner(year, race) /\ UNCHANGED <<noted, req>>

FixtureSpec == FixtureInit /\ [][FixtureNext]_vars

(***************************************************************************)
(* Properties.                                                             *)
(***************************************************************************)
Normalized(s) == Lower(Strip(s))

\* the indices of the records of rows whose race is race, up to case and
\* surrounding whitespace
Matching(rows, race) ==
    {i \in 1..Len(rows) : Normalized(rows[i].race) = Normalized(race)}

Result(c) == [status |-> c.status, body |-> c.body]

SameArguments(c, d) == c.op = d.op /\ c.year = d.year /\ c.race = d.race

\* C1: a race lookup whose year is in the table and whose race string, trimmed
\* and lowercased, is that of a record of the year answers 200 with the year,
\* the caller's race string as it was sent, and the winner of that record.
C1_MatchedRaceEchoesInput ==
    (/\ response.op = "getRaceWinner"
     /\ response.year \in DOMAIN f1_race_winners
     /\ Matching(f1_race_winners[response.year], response.race) # {})
    => /\ response.status = 200
       /\ \E i \in Matching(f1_race_winners[response.year], response.race) :
              response.body = [year |-> response.year,
                               race |-> response.race,
                               winner |-> f1_race_winners[response.year][i].winner]

C1_Witness ==
    /\ response.op = "getRaceWinner"
    /\ response.year = 2024
    /\ response.race # Normalized(response.race)
    /\ Normalized(response.race) = cape_town
    /\ response.status = 200
    /\ response.body.race = response.race
    /\ response.body.winner = "Abdul Davids"

\* C2: a year listing for a year of the table answers 200 with the year and
\* exactly the records stored under it, in their stored order.
C2_YearListingIsStoredSequence ==
    (/\ response.op = "getYearWinners"
     /\ response.year \in DOMAIN f1_race_winners)
    => /\ response.status = 200
       /\ response.body = [year |-> response.year,
                           winners |-> f1_race_winners[response.year]]

C2_Witness ==
    /\ response.op = "getYearWinners"
    /\ response.year = 2024
    /\ response.status = 200
    /\ Len(response.body.winners) = 5
    /\ response.body.winners[2] = Row(australian, "Carlos Sainz")

\* C3: a race lookup for a year that is not in the table answers 404 with the
\* year-not-available message, whatever the race string.
C3_AbsentYearBeforeRace ==
    (/\ response.op = "getRaceWinner"
     /\ response.year \notin DOMAIN f1_race_winners)
    => /\ response.status = 404
       /\ response.body = [message |-> YearNotAvailable]

C3_Witness ==
    /\ response.op = "getRaceWinner"
    /\ response.year = 1999
    /\ \E y \in DOMAIN f1_race_winners :
           Matching(f1_race_winners[y], response.race) # {}
    /\ response.status = 404
    /\ response.body.message = YearNotAvailable

\* C4: a race lookup for a year of the table and a race string that, trimmed
\* and lowercased, is the race of no record of that year answers 404 with
\* the race-not-available message.
C4_UnmatchedRaceNotFound ==
    (/\ response.op = "getRaceWinner"
     /\ response.year \in DOMAIN f1_race_winners
     /\ Matching(f1_race_winners[response.year], response.race) = {})
    => /\ response.status = 404
       /\ response.body = [message |-> RaceNotAvailable]

C4_Witness ==
    /\ response.op = "getRaceWinner"
    /\ response.year = 2024
    /\ Normalized(response.race) = emilia_romagna
    /\ Matching(f1_race_winners[2021], response.race) # {}
    /\ response.status = 404
    /\ response.body.message = RaceNotAvailable

\* C5: a year listing for a year that is not in the table answers 404 with a
\* body whose only field is the year-not-available message.
C5_AbsentYearListingNotFound ==
    (/\ response.op = "getYearWinners"
     /\ response.year \notin DOMAIN f1_race_winners)
    => /\ response.status = 404
       /\ DOMAIN response.body = {"message"}
       /\ response.body.message = YearNotAvailable

C5_Witness ==
    /\ response.op = "getYearWinners"
    /\ response.year = 2025
    /\ response.status = 404
    /\ response.body.message = YearNotAvailable

\* C6: whatever calls were served, the table is the one built at start.
C6_TableNeverMutated == f1_race_winners = F1RaceWinners

C6_Witness ==
    /\ response.op = "getYearWinners"
    /\ response.status = 200
    /\ response.year = 2021
    /\ f1_race_winners[2021] = Table2021

\* C7: two calls of the same operation with the same arguments have the same
\* status and body, whatever was called between them.
C7_RepeatedCallSameResult ==
    (noted.op # "none" /\ SameArguments(noted, response))
    => Result(noted) = Result(response)

C7_Witness ==
    /\ noted.op = "getRaceWinner"
    /\ SameArguments(noted, response)
    /\ noted.year = 2021
    /\ noted.race = Padded(Capitalize(bahrain), 1, 1)
    /\ noted.status = 200
    /\ response.body.winner = "Lewis Hamilton"

\* what a request answers when it is the only one the server runs
Alone(r) ==
    CASE r.op = "root" -> read_root
      [] r.op = "getYearWinners" -> get_year_winners(F1RaceWinners, r.year)
      [] r.op = "getRaceWinner" -> get_race_winner(F1RaceWinners, r.year, r.race)

\* C8: under every interleaving of the steps of requests in flight together,
\* each request finishes with the result it has when it runs alone.
C8_InterleavedAsAlone ==
    \A w \in Workers : req[w].pc = "done" => Result(req[w]) = Alone(req[w])

C8_Witness ==
    \E w \in Workers, v \in Workers :
        /\ w # v
        /\ req[w].pc = "done"
        /\ req[w].op = "getRaceWinner"
        /\ req[w].year = 2024
        /\ req[w].status = 200
        /\ req[v].pc = "scan"
        /\ req[v].year = 2024
        /\ req[v].i > 1

\* C9: when several records of the year match the race string, the lookup
\* answers with the winner of the first of them in stored order.
C9_FirstMatchWins ==
    (/\ response.op = "getRaceWinner"
     /\ response.year \in DOMAIN f1_race_winners
     /\ Cardinality(Matching(f1_race_winners[response.year], response.race)) >= 2)
    => LET rows == f1_race_winners[response.year]
           m == Matching(rows, response.race)
           first == CHOOSE i \in m : \A j \in m : i <= j
       IN  /\ response.status = 200
           /\ response.body.winner = rows[first].winner

C9_Witness ==
    /\ response.op = "getRaceWinner"
    /\ response.year = FixtureYear
    /\ response.status = 200
    /\ LET rows == f1_race_winners[FixtureYear]
       IN  /\ Matching(rows, response.race) = {2, 3}
           /\ rows[2].race # rows[3].race
           /\ rows[2].winner # rows[3].winner
           /\ response.body.winner = rows[2].winner

\* C10: a race lookup for a year and the race of a record that the year's
\* listing returned answers 200 with that record's winner.
C10_ListingAndLookupAgree ==
    (/\ noted.op = "getYearWinners"
     /\ noted.status = 200
     /\ response.op = "getRaceWinner"
     /\ response.year = noted.year)
    => \A i \in 1..Len(noted.body.winners) :
           noted.body.winners[i].race = response.race
           => /\ response.status = 200
              /\ response.body.winner = noted.body.winners[i].winner

C10_Witness ==
    /\ noted.op = "getYearWinners"
    /\ noted.year = 2024
    /\ noted.status = 200
    /\ response.op = "getRaceWinner"
    /\ response.year = 2024
    /\ noted.body.winners[5].race = response.race
    /\ response.status = 200
    /\ response.body.winner = "Abdul Davids"

====
